---- MODULE Spec2Model ----
(***************************************************************************)
(* Neal (2003) univariate slice samplers of rust_slice_sampler:            *)
(*   lib.rs                    slice_sampler_stepping_out                  *)
(*   univariate/stepping_out.rs univariate_slice_sampler_stepping_out_...  *)
(*   univariate/doubling.rs    univariate_slice_sampler_doubling_and_...   *)
(*   univariate/shrinkage.rs   univariate_slice_sampler_shrinkage          *)
(*                                                                         *)
(* Arithmetic.  f64 positions are fixed-point integers (grid units); a     *)
(* product with a uniform draw is truncated to the grid, as a finite       *)
(* precision product is rounded.  A uniform draw of rng.f64() in [0,1) is  *)
(* k/UDen with k in 0..UDen-1.  Density values are integers; the slice     *)
(* height y is kept exactly, as a numerator over UDen.  NaN is not         *)
(* modelled.  A u32 subtraction that would go below 0 (a panic in a debug  *)
(* build, a wrap to a value near 2^32 in a release build) ends the call in *)
(* pc = "overflow"; the evaluation counter stays far below 2^32 within the  *)
(* bounds of the model.                                                    *)
(*                                                                         *)
(* One sampling call is a record s; every loop iteration of the code is    *)
(* one step on that record.  Fields named as the code's locals; the        *)
(* fields nd, evals, L0, R0, nleft, nright, ndbl, ncand, nrej, ci, u, pl,  *)
(* pr are history fields that the properties read and the code does not.   *)
(***************************************************************************)
EXTENDS Integers, Sequences, FiniteSets, TLC

VARIABLES c, a, b, stream

vars == <<c, a, b, stream>>

(* ------------------------------ bounds -------------------------------- *)

\* resolution of a uniform draw: rng.f64() is k/UDen, k in 0..UDen-1
UDen == 4
\* cap on the iterations of an expansion loop that the model follows
MaxExpand == 4
\* cap on the shrinkage candidates of one call that the model follows
MaxShrink == 3

Draws == 0 .. (UDen - 1)

(* --------------------------- number helpers --------------------------- *)

\* f64::MIN_POSITIVE: the smallest positive value of the grid
MIN_POSITIVE == 1

\* f64 negative infinity (ln(0), and a log-density outside the support)
NegInf == -1000000

\* u.ln() for u = k/UDen, in units of ln 2, rounded toward -infinity:
\* the least n with k * 2^n >= UDen, negated; ln(0) is -infinity
RECURSIVE Log2Up(_, _)
Log2Up(k, n) == IF k >= UDen THEN n ELSE Log2Up(2 * k, n + 1)

ln(k) == IF k = 0 THEN NegInf ELSE 0 - Log2Up(k, 0)

\* y < fv, for a slice height y (numerator over UDen) and a density value fv
Lt(y, fv) ==
    IF fv = NegInf THEN FALSE
    ELSE IF y = NegInf THEN TRUE
    ELSE y < UDen * fv

\* y >= fv
Ge(y, fv) == ~Lt(y, fv)

\* u * v for the draw u = k/UDen, truncated to the grid
MulU(k, v) == (k * v) \div UDen

(* ------------------------------ targets ------------------------------- *)

Targets == {"triangle", "bimodal", "flat", "logquad"}

\* UnivariateTarget::on_log_scale
on_log_scale(tgt) == tgt = "logquad"

\* UnivariateTarget::evaluate, for the targets of the model:
\*   triangle  f(t) = t on [0,8], 0 elsewhere (the tests' target, 8 units = 1.0)
\*   bimodal   2 on [0,2] and on [6,7], 0 elsewhere
\*   flat      1 everywhere (unbounded support)
\*   logquad   log f(t) = -(t-3)^2 on [0,6], -infinity elsewhere
evaluate(tgt, t) ==
    CASE tgt = "triangle" -> IF t < 0 \/ t > 8 THEN 0 ELSE t
      [] tgt = "bimodal"  -> IF (0 <= t /\ t <= 2) \/ (6 <= t /\ t <= 7) THEN 2 ELSE 0
      [] tgt = "flat"     -> 1
      [] tgt = "logquad"  -> IF t < 0 \/ t > 6 THEN NegInf ELSE 0 - (t - 3) * (t - 3)

(* ------------------------------ one call ------------------------------ *)

Procs == {"lib", "stepping", "doubling", "shrinkage"}

\* the two stepping-out procedures (lib.rs and univariate/stepping_out.rs)
SteppingOut(s) == s.proc \in {"lib", "stepping"}

\* TuningParameters.max_number_of_steps / max_number_of_doubles
max_number_of_steps(s) == s.maxn
max_number_of_doubles(s) == s.maxn

\* the effective width: a width <= 0 is replaced by f64::MIN_POSITIVE
clamp(width) == IF width <= 0 THEN MIN_POSITIVE ELSE width

\* the state of a call on entry: nothing drawn, nothing evaluated
Start(proc, tgt, x, width, maxn, left, right) ==
    [proc |-> proc, tgt |-> tgt, x |-> x, maxn |-> maxn,
     left |-> left, right |-> right,
     pc |-> "slice",
     w |-> IF proc = "shrinkage" THEN 0 ELSE clamp(width),
     evaluation_counter |-> 0,
     y |-> 0, l |-> 0, r |-> 0, j |-> 0, k |-> 0, x1 |-> 0,
     lp |-> 0, rp |-> 0, d |-> FALSE,
     nd |-> 0, evals |-> 0, L0 |-> 0, R0 |-> 0,
     nleft |-> 0, nright |-> 0, ndbl |-> 0, ncand |-> 0, nrej |-> 0,
     ci |-> 0, u |-> 0]

\* the increment left out: the counter stays as it is
count_none(n) == n

\* evaluation_counter += 1
count(n) == n + 1

\* f_with_counter: one call of the target's evaluate, counted.  The value is
\* read with evaluate(s.tgt, t); the record is the call after the evaluation.
f_with_counter(s, t) ==
    [s EXCEPT !.evaluation_counter = count(@), !.evals = @ + 1]

\* one call of rng.f64(): the draw k is consumed
draw(s, k) == [s EXCEPT !.nd = @ + 1, !.u = k]

\* the slice height: u.ln() + fx on the log scale, u * fx otherwise
height(tgt, k, fx) ==
    IF on_log_scale(tgt)
    THEN IF ln(k) = NegInf \/ fx = NegInf THEN NegInf ELSE UDen * (ln(k) + fx)
    ELSE k * fx

\* the bracket the shrinkage loop starts from is recorded in L0, R0
EnterShrink(s) == [s EXCEPT !.pc = "shrink", !.L0 = s.l, !.R0 = s.r]

\* Step 1 (slice): one draw and one evaluation at x
Slice(s, k) ==
    LET t == f_with_counter(draw(s, k), s.x)
        yy == height(s.tgt, k, evaluate(s.tgt, s.x))
    IN  IF s.proc = "shrinkage"
        THEN EnterShrink([t EXCEPT !.y = yy, !.l = s.left, !.r = s.right])
        ELSE [t EXCEPT !.y = yy, !.pc = "place"]

\* the expansion the procedure runs after the bracket is placed:
\* lib.rs: unbounded when max_number_of_steps = 0, else the budget split
expand_lib(s) ==
    IF max_number_of_steps(s) = 0 THEN [s EXCEPT !.pc = "left"]
    ELSE [s EXCEPT !.pc = "split"]

\* stepping_out.rs: match max_number_of_steps { 0 => .., 1 => {}, _ => .. }
expand_stepping(s) ==
    CASE max_number_of_steps(s) = 0 -> [s EXCEPT !.pc = "left"]
      [] max_number_of_steps(s) = 1 -> EnterShrink(s)
      [] OTHER -> [s EXCEPT !.pc = "split"]

\* the arm 1 => {} left out: 1 is treated as any other finite budget
expand_doubling_noskip(s) ==
    IF max_number_of_doubles(s) = 0 THEN [s EXCEPT !.pc = "double"]
    ELSE [s EXCEPT !.pc = "double", !.k = max_number_of_doubles(s)]

\* doubling.rs: match max_number_of_doubles { 0 => .., 1 => {}, _ => .. }
expand_doubling(s) ==
    CASE max_number_of_doubles(s) = 0 -> [s EXCEPT !.pc = "double"]
      [] max_number_of_doubles(s) = 1 -> EnterShrink(s)
      [] OTHER -> [s EXCEPT !.pc = "double", !.k = max_number_of_doubles(s)]

\* Step 2, the initial bracket: l = x - u() * w, r = l + w
Place(s, k) ==
    LET ll == s.x - MulU(k, s.w)
        t == [draw(s, k) EXCEPT !.l = ll, !.r = ll + s.w]
    IN  CASE s.proc = "lib" -> expand_lib(t)
          [] s.proc = "stepping" -> expand_stepping(t)
          [] s.proc = "doubling" -> expand_doubling(t)

\* the right budget off by one: k = max_number_of_steps - j
Split_off_by_one(s, k) ==
    LET jj == MulU(k, max_number_of_steps(s))
        kk == max_number_of_steps(s) - jj
    IN  IF kk < 0 THEN [draw(s, k) EXCEPT !.j = jj, !.pc = "overflow"]
        ELSE [draw(s, k) EXCEPT !.j = jj, !.k = kk, !.pc = "left"]

\* j = floor(u() * max_number_of_steps) as u32; k = max_number_of_steps - 1 - j
Split(s, k) ==
    LET jj == MulU(k, max_number_of_steps(s))
        kk == max_number_of_steps(s) - 1 - jj
    IN  IF kk < 0 THEN [draw(s, k) EXCEPT !.j = jj, !.pc = "overflow"]
        ELSE [draw(s, k) EXCEPT !.j = jj, !.k = kk, !.pc = "left"]

Bounded(s) == s.maxn # 0

\* one test of the left loop, and its body when the test passes:
\*   while y < f(l) { l -= w }      while j > 0 && y < f(l) { l -= w; j -= 1 }
StepLeft(s) ==
    IF Bounded(s) /\ s.j = 0 THEN [s EXCEPT !.pc = "right"]
    ELSE LET t == f_with_counter(s, s.l)
         IN  IF Lt(s.y, evaluate(s.tgt, s.l))
             THEN [t EXCEPT !.l = s.l - s.w,
                            !.j = IF Bounded(s) THEN s.j - 1 ELSE s.j,
                            !.nleft = @ + 1]
             ELSE [t EXCEPT !.pc = "right"]

\* the bounded right loop with the body of the left loop pasted in: l -= w
StepRight_slip(s) ==
    IF Bounded(s) /\ s.k = 0 THEN EnterShrink(s)
    ELSE LET t == f_with_counter(s, s.r)
         IN  IF Lt(s.y, evaluate(s.tgt, s.r))
             THEN IF Bounded(s)
                  THEN [t EXCEPT !.l = s.l - s.w, !.k = s.k - 1, !.nright = @ + 1]
                  ELSE [t EXCEPT !.r = s.r + s.w, !.nright = @ + 1]
             ELSE EnterShrink(t)

\* one test of the right loop, and its body when the test passes
StepRight(s) ==
    IF Bounded(s) /\ s.k = 0 THEN EnterShrink(s)
    ELSE LET t == f_with_counter(s, s.r)
         IN  IF Lt(s.y, evaluate(s.tgt, s.r))
             THEN [t EXCEPT !.r = s.r + s.w,
                            !.k = IF Bounded(s) THEN s.k - 1 ELSE s.k,
                            !.nright = @ + 1]
             ELSE EnterShrink(t)

(* ------------------------------ doubling ------------------------------ *)

\* the expansion loop's condition, with its short-circuit evaluations:
\*   0 =>  while y < f(l) && y < f(r)
\*   _ =>  while k > 0 && (y < f(l) || y < f(r))
\* pc "dstep" is the loop's body, "shrink" the loop's exit
DoubleTest(s) ==
    LET tl == f_with_counter(s, s.l)
        tr == f_with_counter(tl, s.r)
        yl == Lt(s.y, evaluate(s.tgt, s.l))
        yr == Lt(s.y, evaluate(s.tgt, s.r))
    IN  IF max_number_of_doubles(s) = 0
        THEN IF ~yl THEN EnterShrink(tl)
             ELSE IF yr THEN [tr EXCEPT !.pc = "dstep"] ELSE EnterShrink(tr)
        ELSE IF s.k = 0 THEN EnterShrink(s)
             ELSE IF yl THEN [tl EXCEPT !.pc = "dstep"]
             ELSE IF yr THEN [tr EXCEPT !.pc = "dstep"] ELSE EnterShrink(tr)

\* v < 0.5 for the draw v = k/UDen
LtHalf(k) == 2 * k < UDen

\* the body of the unbounded loop (max_number_of_doubles = 0):
\*   if v < 0.5 { l -= r - l } else { r -= r - l }
double_unbounded(s, v) ==
    IF LtHalf(v) THEN [s EXCEPT !.l = s.l - (s.r - s.l)]
    ELSE [s EXCEPT !.r = s.r - (s.r - s.l)]

\* the body of the bounded loop:
\*   if v < 0.5 { l -= r - l; k -= 1 } else { r += r - l; k -= 1 }
double_bounded(s, v) ==
    IF LtHalf(v) THEN [s EXCEPT !.l = s.l - (s.r - s.l), !.k = s.k - 1]
    ELSE [s EXCEPT !.r = s.r + (s.r - s.l), !.k = s.k - 1]

\* one iteration of the expansion loop: the draw v and the doubling
DoubleStep(s, v) ==
    LET t == [draw(s, v) EXCEPT !.ndbl = @ + 1, !.pc = "double"]
    IN  IF max_number_of_doubles(s) = 0 THEN double_unbounded(t, v)
        ELSE double_bounded(t, v)

(* ------------------------------ shrinkage ----------------------------- *)

\* the candidate without the offset of the width: x1 = l + u() * r
candidate_no_offset(l, r, k) == l + MulU(k, r)

\* x1 = l + u() * (r - l)
candidate(l, r, k) == l + MulU(k, r - l)

\* the acceptance test with y <= fx1
accepts_le(y, fx1) ==
    IF fx1 = NegInf THEN y = NegInf
    ELSE IF y = NegInf THEN TRUE
    ELSE y <= UDen * fx1

\* the acceptance test of the shrinkage loop: y < fx1
accepts(y, fx1) == Lt(y, fx1)

\* the two arms of the shrink exchanged
shrink_swapped(s) ==
    IF s.x1 < s.x THEN [s EXCEPT !.r = s.x1] ELSE [s EXCEPT !.l = s.x1]

\* if x1 < x { l = x1 } else { r = x1 }
shrink(s) ==
    IF s.x1 < s.x THEN [s EXCEPT !.l = s.x1] ELSE [s EXCEPT !.r = s.x1]

\* a rejected candidate: the bracket is shrunk and the loop goes on
Reject(s) == [shrink(s) EXCEPT !.nrej = @ + 1, !.pc = "shrink"]

\* return (x1, evaluation_counter)
Return(s) == [s EXCEPT !.pc = "done"]

\* doubling.rs: the locals of the acceptance test of a candidate that passed
\* y < fx1:  lp = l, rp = r, d = false
begin_check(s) ==
    [s EXCEPT !.lp = s.l, !.rp = s.r, !.d = FALSE, !.ci = 0, !.pc = "check"]

\* one iteration of the shrinkage loop up to the acceptance test
Candidate(s, k) ==
    LET xx == candidate(s.l, s.r, k)
        t == [f_with_counter(draw(s, k), xx) EXCEPT !.x1 = xx, !.ncand = @ + 1]
    IN  IF accepts(s.y, evaluate(s.tgt, xx))
        THEN IF s.proc = "doubling" THEN begin_check(t) ELSE Return(t)
        ELSE Reject(t)

\* rp - lp > 1.1 * w
Wide(s) == 10 * (s.rp - s.lp) > 11 * s.w

\* one test of  while rp - lp > 1.1 * w  and its body when the test passes:
\*   m = (lp + rp) / 2; d is set when x and x1 are on opposite sides of m;
\*   the half that holds x1 is kept;
\*   if d && y >= f(lp) && y >= f(rp) { accept = false; break }
\* When the test fails the loop ends with accept = true and the call returns.
ReverseCheck(s) ==
    IF ~Wide(s) THEN Return(s)
    ELSE LET m == (s.lp + s.rp) \div 2
             dd == s.d \/ (s.x < m /\ s.x1 >= m) \/ (s.x >= m /\ s.x1 < m)
             nlp == IF s.x1 < m THEN s.lp ELSE m
             nrp == IF s.x1 < m THEN m ELSE s.rp
             t == [s EXCEPT !.lp = nlp, !.rp = nrp, !.d = dd, !.ci = @ + 1]
             tl == f_with_counter(t, nlp)
             tr == f_with_counter(tl, nrp)
         IN  IF ~dd THEN t
             ELSE IF ~Ge(s.y, evaluate(s.tgt, nlp)) THEN tl
             ELSE IF ~Ge(s.y, evaluate(s.tgt, nrp)) THEN tr
             ELSE Reject(tr)

(* --------------------------- the sampling call ------------------------ *)

Xs == {1, 4}
Widths == {0, 2}
Budgets == 0 .. 3
Brackets == {<<0, 8>>, <<4, 4>>, <<6, 2>>}

\* the calls the model follows: every procedure, target, point and tuning
Calls ==
    {Start(p, t, x, wd, n, 0, 0) :
        p \in Procs \ {"shrinkage"}, t \in Targets, x \in Xs, wd \in Widths, n \in Budgets}
    \cup
    {Start("shrinkage", t, x, 0, 0, br[1], br[2]) :
        t \in Targets, x \in Xs, br \in Brackets}

Idle == Start("lib", "flat", 0, 0, 0, 0, 0)

Init == c \in Calls /\ a = Idle /\ b = Idle /\ stream = <<>>

SliceAct ==
    /\ c.pc = "slice"
    /\ \E k \in Draws : c' = Slice(c, k)
    /\ UNCHANGED <<a, b, stream>>

PlaceAct ==
    /\ c.pc = "place"
    /\ \E k \in Draws : c' = Place(c, k)
    /\ UNCHANGED <<a, b, stream>>

SplitAct ==
    /\ c.pc = "split"
    /\ \E k \in Draws : c' = Split(c, k)
    /\ UNCHANGED <<a, b, stream>>

StepLeftAct ==
    /\ c.pc = "left"
    /\ c.nleft < MaxExpand
    /\ c' = StepLeft(c)
    /\ UNCHANGED <<a, b, stream>>

StepRightAct ==
    /\ c.pc = "right"
    /\ c.nright < MaxExpand
    /\ c' = StepRight(c)
    /\ UNCHANGED <<a, b, stream>>

DoubleTestAct ==
    /\ c.pc = "double"
    /\ c.ndbl < MaxExpand
    /\ c' = DoubleTest(c)
    /\ UNCHANGED <<a, b, stream>>

DoubleStepAct ==
    /\ c.pc = "dstep"
    /\ \E v \in Draws : c' = DoubleStep(c, v)
    /\ UNCHANGED <<a, b, stream>>

CandidateAct ==
    /\ c.pc = "shrink"
    /\ c.ncand < MaxShrink
    /\ \E k \in Draws : c' = Candidate(c, k)
    /\ UNCHANGED <<a, b, stream>>

ReverseCheckAct ==
    /\ c.pc = "check"
    /\ c' = ReverseCheck(c)
    /\ UNCHANGED <<a, b, stream>>

Next ==
    \/ SliceAct
    \/ PlaceAct
    \/ SplitAct
    \/ StepLeftAct
    \/ StepRightAct
    \/ DoubleTestAct
    \/ DoubleStepAct
    \/ CandidateAct
    \/ ReverseCheckAct

Spec == Init /\ [][Next]_vars

(* ------------- two calls on one seeded stream of draws ---------------- *)

\* a step that consumes the draw k
StepDraw(s, k) ==
    CASE s.pc = "slice" -> Slice(s, k)
      [] s.pc = "place" -> Place(s, k)
      [] s.pc = "split" -> Split(s, k)
      [] s.pc = "shrink" -> Candidate(s, k)

\* a step of an expansion loop of stepping-out; it consumes no draw
StepMove(s) == IF s.pc = "left" THEN StepLeft(s) ELSE StepRight(s)

DrawPc(s) == s.pc \in {"slice", "place", "split"} \/ (s.pc = "shrink" /\ s.ncand < MaxShrink)
MovePc(s) == (s.pc = "left" /\ s.nleft < MaxExpand) \/ (s.pc = "right" /\ s.nright < MaxExpand)

\* the pairs of calls followed: the same stepping-out procedure, target, x and
\* width; call a with max_number_of_steps = 0, call b with a finite budget
EqInit ==
    /\ \E p \in {"lib", "stepping"}, t \in Targets, x \in Xs, wd \in Widths,
          n \in Budgets \ {0} :
            /\ a = Start(p, t, x, wd, 0, 0, 0)
            /\ b = Start(p, t, x, wd, n, 0, 0)
    /\ c = Idle
    /\ stream = <<>>

\* call a draws from a freshly seeded generator: the stream is recorded
RunADraw ==
    /\ DrawPc(a)
    /\ \E k \in Draws : a' = StepDraw(a, k) /\ stream' = Append(stream, k)
    /\ UNCHANGED <<b, c>>

RunAMove ==
    /\ MovePc(a)
    /\ a' = StepMove(a)
    /\ UNCHANGED <<b, c, stream>>

\* call b runs after call a has returned, on a generator seeded alike: its
\* n-th draw is the n-th draw of the stream (and a fresh one past its end)
RunBDraw ==
    /\ a.pc = "done"
    /\ DrawPc(b)
    /\ IF b.nd < Len(stream)
       THEN b' = StepDraw(b, stream[b.nd + 1]) /\ UNCHANGED stream
       ELSE \E k \in Draws : b' = StepDraw(b, k) /\ stream' = Append(stream, k)
    /\ UNCHANGED <<a, c>>

RunBMove ==
    /\ a.pc = "done"
    /\ MovePc(b)
    /\ b' = StepMove(b)
    /\ UNCHANGED <<a, c, stream>>

EqNext == RunADraw \/ RunAMove \/ RunBDraw \/ RunBMove

SpecEq == EqInit /\ [][EqNext]_vars

(* ------------------------------ properties ---------------------------- *)

\* C1: a call that has returned (x1, count) returns an x1 with f(x1) > y,
\* y the slice height drawn in step 1 of that call; all procedures.
AcceptedAboveSlice ==
    c.pc = "done" => Lt(c.y, evaluate(c.tgt, c.x1))

\* a doubling call that rejected a candidate, ran the acceptance test and returned
AcceptedAboveSliceWitness ==
    c.pc = "done" /\ c.proc = "doubling" /\ c.nrej > 0 /\ c.ci > 0

\* the caller's bracket of direct shrinkage holds x (any bracket elsewhere)
BracketGiven(s) == s.proc = "shrinkage" => (s.left <= s.x /\ s.x <= s.right)

\* C2: at the start of every iteration of the shrinkage loop l <= x <= r;
\* for direct shrinkage when the caller's bracket satisfies left <= x <= right.
BracketContainsX ==
    (c.pc = "shrink" /\ BracketGiven(c)) => (c.l <= c.x /\ c.x <= c.r)

\* unbounded doubling that doubled, reached the shrinkage loop and shrank
BracketContainsXWitness ==
    /\ c.pc = "shrink" /\ c.proc = "doubling" /\ c.maxn = 0
    /\ c.ndbl > 0 /\ c.nrej > 0

\* C3: every acceptance test of the doubling procedure starts its bisection
\* from the bracket as the expansion left it (L0, R0), with d = false.
CheckStartsFromExpansionBracket ==
    (c.pc = "check" /\ c.ci = 0) => (c.lp = c.L0 /\ c.rp = c.R0 /\ c.d = FALSE)

\* C4: doubling with max_number_of_doubles = 1 evaluates the target at x and
\* at the shrinkage candidates only: the count is 1 + the number of candidates,
\* and the bracket the shrinkage starts from has width w.
SkipExpansionCount ==
    (c.proc = "doubling" /\ c.maxn = 1 /\ c.pc \in {"shrink", "check", "done"})
        => /\ c.evaluation_counter = 1 + c.ncand
           /\ c.R0 - c.L0 = c.w
           /\ c.ndbl = 0 /\ c.ci = 0

\* such a call that returned after two candidates or more
SkipExpansionCountWitness ==
    c.proc = "doubling" /\ c.maxn = 1 /\ c.pc = "done" /\ c.ncand >= 2

\* a step of the call that rejects a candidate (plain test or acceptance test)
Rejection == c'.nrej = c.nrej + 1

\* C5 as stated: every rejected candidate makes r - l strictly smaller.
RejectionShrinksStrictly ==
    [][Rejection => (c'.r - c'.l < c.r - c.l)]_vars

\* C5 amended: with l <= r, a rejected candidate never makes r - l larger,
\* and makes it strictly smaller unless the candidate is the endpoint it
\* replaces (x1 = l when x1 < x, x1 = r otherwise).
RejectionShrinks ==
    [][(Rejection /\ c.l <= c.r)
          => /\ c'.r - c'.l <= c.r - c.l
             /\ (c'.x1 < c.x /\ c'.x1 # c.l) => (c'.r - c'.l < c.r - c.l)
             /\ (c'.x1 >= c.x /\ c'.x1 # c.r) => (c'.r - c'.l < c.r - c.l)]_vars

\* a doubling call whose acceptance test rejected a candidate, the bracket
\* then narrower than the expansion left it
RejectionShrinksWitness ==
    /\ c.proc = "doubling" /\ c.pc = "shrink" /\ c.ci > 0 /\ c.nrej > 0
    /\ c.r - c.l < c.R0 - c.L0

\* C6: the counter is 0 when the call starts, equals the number of calls of
\* evaluate made so far at every point, and is at least 2 when the call returns.
CounterCountsEvaluations ==
    /\ c.evaluation_counter = c.evals
    /\ c.pc = "slice" => c.evaluation_counter = 0
    /\ c.pc = "done" => c.evaluation_counter >= 2
    /\ (c.pc = "done" /\ c.proc = "shrinkage") => c.evaluation_counter = 1 + c.ncand
    /\ (c.pc = "done" /\ SteppingOut(c) /\ c.maxn = 0)
          => c.evaluation_counter = 1 + (c.nleft + 1) + (c.nright + 1) + c.ncand

\* a doubling call that returned after endpoint evaluations of both kinds
CounterCountsEvaluationsWitness ==
    /\ c.pc = "done" /\ c.proc = "doubling" /\ c.ndbl > 0 /\ c.ci > 0
    /\ c.evaluation_counter >= 6

\* C8: every iteration of the doubling expansion, bounded or not, sets l to
\* l - (r - l) when the draw is below 0.5 and r to r + (r - l) otherwise, and
\* leaves the other endpoint alone.
DoublingStepDoubles ==
    [][(c.pc = "dstep" /\ c'.pc = "double")
          => IF LtHalf(c'.u)
             THEN c'.l = c.l - (c.r - c.l) /\ c'.r = c.r
             ELSE c'.r = c.r + (c.r - c.l) /\ c'.l = c.l]_vars

\* C9: bounded stepping-out: the split gives 0 <= j <= m-1 and k = m-1-j >= 0
\* with no underflow; at most j steps left and k right are made, at most m-1
\* in all, and the shrinkage starts from a bracket no wider than m * w.
BudgetSplit ==
    /\ (SteppingOut(c) /\ c.maxn >= 1) => c.pc # "overflow"
    /\ (SteppingOut(c) /\ c.maxn >= 1 /\ c.pc \in {"left", "right", "shrink", "done"})
          => /\ c.j >= 0 /\ c.k >= 0
             /\ c.j + c.nleft <= c.maxn - 1
             /\ (c.j + c.nleft) + (c.k + c.nright) = c.maxn - 1
             /\ c.nleft + c.nright <= c.maxn - 1
             /\ c.pc \in {"shrink", "done"} => c.R0 - c.L0 <= c.maxn * c.w

\* budget 3 spent in full, the left endpoint still above the slice height
BudgetSplitWitness ==
    /\ SteppingOut(c) /\ c.maxn = 3 /\ c.pc = "shrink" /\ c.ncand = 0
    /\ c.nleft + c.nright = 2 /\ c.nleft > 0 /\ c.j = 0
    /\ Lt(c.y, evaluate(c.tgt, c.l))

\* targets whose density exceeds any slice height only on a bounded set
BoundedSupport(tgt) == tgt # "flat"

\* the widest bracket with both endpoints in the support of the target
SupportWidth(tgt) ==
    CASE tgt = "triangle" -> 8
      [] tgt = "bimodal" -> 7
      [] tgt = "logquad" -> 6
      [] OTHER -> 0

\* the doublings after which a bracket of width w is wider than the support
RECURSIVE DoublingsToCover(_, _)
DoublingsToCover(width, tgt) ==
    IF width > SupportWidth(tgt) THEN 0 ELSE 1 + DoublingsToCover(2 * width, tgt)

\* C10: unbounded doubling on a target of bounded support ends its expansion
\* loop: the loop goes on only while both endpoints are above y, so it makes
\* no more iterations than it takes a doubling bracket to outgrow the support.
UnboundedDoublingTerminates ==
    (c.proc = "doubling" /\ c.maxn = 0 /\ BoundedSupport(c.tgt))
        => c.ndbl <= DoublingsToCover(c.w, c.tgt)

\* the expansion of the call is over
PastExpansion(s) == s.pc \in {"shrink", "done"}

\* the finite budget stopped a side of the expansion while that endpoint was
\* still above the slice height
StoppedEarly(s) ==
    \/ s.j = 0 /\ Lt(s.y, evaluate(s.tgt, s.L0))
    \/ s.k = 0 /\ Lt(s.y, evaluate(s.tgt, s.R0))

\* the draws the shrinkage loop of the call consumed: its last ncand draws
ShrinkDraws(s) == SubSeq(stream, s.nd - s.ncand + 1, s.nd)

====
